---- MODULE Spec2Model ----
(***************************************************************************)
(* Model of EasyButton/main.c: the single-threaded epoll/timerfd dispatch   *)
(* loop of the device, its button debouncers (IsButtonPressed,              *)
(* IsEasyButtonPressed), the arming gesture in ButtonsHandler, the LED      *)
(* handlers and the Azure IoT callbacks.                                    *)
(*                                                                          *)
(* Every handler and callback runs to completion on the one loop thread,    *)
(* so each is one action.  The inputs of a dispatch (GPIO levels read, the  *)
(* outcome of consuming the timer event, the desired twin value, ...) are   *)
(* chosen with \E and recorded in `event`; what the dispatch handed to the  *)
(* outside (`calls`) and what the debouncers returned (`pressed`,           *)
(* `accepted`) are recorded as outputs of the last dispatch.                *)
(***************************************************************************)
EXTENDS Integers, Sequences, FiniteSets, TLC

(***************************************************************************)
(* Bounds of the exploration (not program constants).                       *)
(***************************************************************************)
\* Sampling ticks explored after the start state in the arming specification.
MaxTicks == 5
\* Largest value of easyButtonCount explored in the debouncer specification.
MaxCount == 453
\* Desired twin values range over -MaxDesired .. MaxDesired.
MaxDesired == 5
\* Dispatch rounds explored in the lifecycle and notification specifications.
MaxRounds == 3

(***************************************************************************)
(* Program constants.                                                       *)
(***************************************************************************)
\* GPIO_Value_Type: GPIO_Value_Low is 0, the value of a zero-initialised static.
Low == "Low"
High == "High"
Levels == {Low, High}
\* GPIO_GetValue returns a level, or fails.
Err == "Err"
ReadOutcomes == Levels \cup {Err}

\* RgbLedUtility_Colors used by main.c.
Off == "Off"
Red == "Red"
Green == "Green"
Blue == "Blue"

\* blinkIntervals, in milliseconds.
blinkIntervals == <<125, 250, 500>>
blinkIntervalsCount == Len(blinkIntervals)
\* nullPeriod: a timer created with it is not started.
nullPeriod == 0
\* defaultBlinkTimeLed2, in milliseconds.
defaultBlinkTimeLed2 == 150
\* The window of IsEasyButtonPressed: a change is accepted when the count is above it.
EasyThreshold == 450
\* easyButtonCount is an int.
INT_MAX == 2147483647
INT_MIN == (0 - INT_MAX) - 1

VARIABLES
    pc,                   \* position of main: "init", "loop", "exited", "aborted"
    fds,                  \* per handle: "unset" (-1), "open", "closed", "closedTwice"
    terminationRequired,
    connectedToIoTHub,
    blinkIntervalIndex,
    blinkingLedPeriod,
    blinkingLedState,
    ledBlinkColor,
    led1, led2, led3,     \* colour last written to each RGB LED
    led1TimerPeriod,      \* period set on gpioLed1TimerFd (nullPeriod: not started)
    led2TimerExpiry,      \* single expiry armed on gpioLed2TimerFd (nullPeriod: disarmed)
    blinkButtonState,     \* static of ButtonsHandler: last level of button A
    messageButtonState,   \* static of ButtonsHandler: last level of button B
    easyButtonState,
    easyButtonCount,
    easyButtonArmed,
    event,                \* the last dispatch and its inputs
    pressed,              \* what the debouncers returned in the last dispatch
    accepted,             \* IsEasyButtonPressed took its accepting branch in the last dispatch
    calls,                \* calls into the connectivity client made by the last dispatch
    unconfirmed,          \* messages handed to AzureIoT_SendMessage, delivery not yet confirmed
    \* history variables of the specifications below
    ticks,                \* sampling ticks dispatched since the start state
    sendCount,            \* AzureIoT_SendMessage invocations so far
    primaryCount,         \* primary (button A) presses reported so far
    sinceAccept,          \* ticks dispatched since the last accepted easy-button transition
    acceptedLevel,        \* level of the last accepted easy-button transition
    lowRunReports,        \* per edge button: presses reported in the current run of low samples
    seenHigh,             \* per edge button: a tick has sampled it high
    rounds                \* dispatch rounds of the main loop counted so far

progVars == <<pc, fds, terminationRequired, connectedToIoTHub, blinkIntervalIndex,
              blinkingLedPeriod, blinkingLedState, ledBlinkColor, led1, led2, led3,
              led1TimerPeriod, led2TimerExpiry, blinkButtonState, messageButtonState,
              easyButtonState, easyButtonCount, easyButtonArmed, event, pressed,
              accepted, calls, unconfirmed>>
histVars == <<ticks, sendCount, primaryCount, sinceAccept, acceptedLevel, lowRunReports,
              seenHigh, rounds>>
vars == <<progVars, histVars>>

\* What only main writes.
mainVars == <<pc, fds>>
buttonVars == <<blinkButtonState, messageButtonState, easyButtonState, easyButtonCount>>
blinkVars == <<blinkIntervalIndex, blinkingLedPeriod, blinkingLedState, ledBlinkColor,
               led1TimerPeriod>>

\* The buttons IsButtonPressed debounces: A (gpioLedBlinkRateButtonFd) and B
\* (gpioSendMessageButtonFd).
EdgeButtons == {"A", "B"}

NoPress == [A |-> FALSE, B |-> FALSE, E |-> FALSE]

\* The handles main.c opens, in the order InitPeripheralsAndHandlers opens them: the
\* three button GPIOs, the LED GPIOs (RgbLedUtility_OpenLeds), the epoll instance and
\* the four timers.
HandleOrder == <<"gpioLedBlinkRateButtonFd", "gpioSendMessageButtonFd", "gpioEasyButtonFd",
                 "rgbLeds", "epollFd", "gpioLed1TimerFd", "gpioLed2TimerFd",
                 "gpioButtonsManagementTimerFd", "azureIotDoWorkTimerFd">>
Handles == {HandleOrder[i] : i \in DOMAIN HandleOrder}

\* The statics as the C runtime initialises them, before main runs.
Init ==
    /\ pc = "init"
    /\ fds = [h \in Handles |-> "unset"]
    /\ terminationRequired = FALSE
    /\ connectedToIoTHub = FALSE
    /\ blinkIntervalIndex = 0
    /\ blinkingLedPeriod = blinkIntervals[1]
    /\ blinkingLedState = FALSE
    /\ ledBlinkColor = Blue
    /\ led1 = Off /\ led2 = Off /\ led3 = Off
    /\ led1TimerPeriod = nullPeriod
    /\ led2TimerExpiry = nullPeriod
    /\ blinkButtonState = Low
    /\ messageButtonState = Low
    /\ easyButtonState = Low
    /\ easyButtonCount = 0
    /\ easyButtonArmed = FALSE
    /\ event = [h |-> "start"]
    /\ pressed = NoPress
    /\ accepted = FALSE
    /\ calls = <<>>
    /\ unconfirmed = 0
    /\ ticks = 0
    /\ sendCount = 0
    /\ primaryCount = 0
    /\ sinceAccept = 0
    /\ acceptedLevel = Low
    /\ lowRunReports = [b \in EdgeButtons |-> 0]
    /\ seenHigh = [b \in EdgeButtons |-> FALSE]
    /\ rounds = 0

\* main's loop condition: a handler is dispatched only while the flag is clear.
Running == pc = "loop" /\ ~terminationRequired

(***************************************************************************)
(* Helpers: the debouncers and the arming gesture.                          *)
(***************************************************************************)

\* easyButtonCount++ on an int: signed overflow is undefined; the target's add wraps.
IntIncrement(c) == IF c < INT_MAX THEN {c + 1} ELSE {INT_MIN}

\* What a conversion to size_t with undefined behaviour can leave: any size_t.  The
\* sample holds 0 (the target's conversion saturates), a large value, and every residue
\* modulo blinkIntervalsCount.
UndefinedSizeT == {0, 1, 2, INT_MAX}

\* (size_t) of a double holding the integer v: undefined for a negative v (every v
\* explored is below the largest size_t).
SizeTCast(v) == IF 0 <= v THEN {v} ELSE UndefinedSizeT

\* Mutant: a low level is reported as a press whatever the last known state.
IsButtonPressed_Level(read, oldState) ==
    IF read = Err
    THEN [pressed |-> FALSE, state |-> oldState, failed |-> TRUE]
    ELSE [pressed |-> read = Low, state |-> read, failed |-> FALSE]

\* Mutant: a failed read is logged but does not request termination.
IsButtonPressed_IgnoresError(read, oldState) ==
    IF read = Err
    THEN [pressed |-> FALSE, state |-> oldState, failed |-> FALSE]
    ELSE [pressed |-> (read # oldState) /\ (read = Low), state |-> read, failed |-> FALSE]

\* IsButtonPressed(fd, oldState): `read` is what GPIO_GetValue gave.
IsButtonPressed(read, oldState) ==
    IF read = Err
    THEN [pressed |-> FALSE, state |-> oldState, failed |-> TRUE]
    ELSE [pressed |-> (read # oldState) /\ (read = Low), state |-> read, failed |-> FALSE]

\* What GPIO_GetValue leaves in IsEasyButtonPressed's newState: the level read, or, when
\* the read fails, whatever the uninitialised local holds.
EasyReads == [failed : BOOLEAN, level : Levels]

\* Mutant: a change of level is accepted without the count being tested.
IsEasyButtonPressed_NoWindow(newState, failed, next) ==
    IF ~failed /\ easyButtonState # newState
    THEN [pressed |-> newState = High, accepted |-> TRUE, state |-> newState, count |-> 0]
    ELSE [pressed |-> FALSE, accepted |-> FALSE, state |-> newState, count |-> next]

\* Mutant: every accepted transition is reported as a press, a release too.
IsEasyButtonPressed_ReportsRelease(newState, failed, next) ==
    IF ~failed /\ easyButtonState # newState /\ easyButtonCount > EasyThreshold
    THEN [pressed |-> TRUE, accepted |-> TRUE, state |-> newState, count |-> 0]
    ELSE [pressed |-> FALSE, accepted |-> FALSE, state |-> newState, count |-> next]

\* Mutant: a level sampled without being accepted is not stored.
IsEasyButtonPressed_KeepsLevel(newState, failed, next) ==
    IF ~failed /\ easyButtonState # newState /\ easyButtonCount > EasyThreshold
    THEN [pressed |-> newState = High, accepted |-> TRUE, state |-> newState, count |-> 0]
    ELSE [pressed |-> FALSE, accepted |-> FALSE, state |-> easyButtonState,
          count |-> next]

\* IsEasyButtonPressed(): `next` is the outcome of easyButtonCount++.
IsEasyButtonPressed(newState, failed, next) ==
    IF ~failed /\ easyButtonState # newState /\ easyButtonCount > EasyThreshold
    THEN [pressed |-> newState = High, accepted |-> TRUE, state |-> newState, count |-> 0]
    ELSE [pressed |-> FALSE, accepted |-> FALSE, state |-> newState, count |-> next]

\* The sends among the calls of a dispatch.
Sends(c) == {i \in DOMAIN c : c[i].fn = "AzureIoT_SendMessage"}

\* The part of the device state the arming gesture writes, threaded through one
\* ButtonsHandler run.
ArmingState(c) ==
    [armed |-> easyButtonArmed, led1 |-> led1, led2 |-> led2,
     led2Timer |-> led2TimerExpiry, calls |-> c]

\* Mutant: LED2 is lit but its one-shot timer is not armed.
BlinkLed2Once_NoTimer(d) == [d EXCEPT !.led2 = Red]

\* BlinkLed2Once()
BlinkLed2Once(d) == [d EXCEPT !.led2 = Red, !.led2Timer = defaultBlinkTimeLed2]

\* Mutant: the message is sent whether or not the hub is connected.
SendMessageToIotHub_IgnoresConnection(d, messagePayload) ==
    BlinkLed2Once([d EXCEPT !.calls =
        Append(@, [fn |-> "AzureIoT_SendMessage", arg |-> messagePayload])])

\* SendMessageToIotHub(messagePayload)
SendMessageToIotHub(d, messagePayload) ==
    IF connectedToIoTHub
    THEN BlinkLed2Once([d EXCEPT !.calls =
             Append(@, [fn |-> "AzureIoT_SendMessage", arg |-> messagePayload])])
    ELSE d

\* Mutant: the primary press arms without recolouring LED1.
PrimaryPressed_NoLed(d) == [d EXCEPT !.armed = TRUE]

\* Mutant: the primary press toggles the arming flag.
PrimaryPressed_Toggles(d) == [d EXCEPT !.armed = ~d.armed, !.led1 = Blue]

\* ButtonsHandler, button A reported pressed.
PrimaryPressed(d) == [d EXCEPT !.armed = TRUE, !.led1 = Blue]

\* Mutant: the confirm press fires but leaves the device armed.
ConfirmPressed_StaysArmed(d) ==
    IF d.armed
    THEN SendMessageToIotHub([d EXCEPT !.led1 = Red], "That was easy")
    ELSE d

\* Mutant: the confirm press fires without testing the arming flag.
ConfirmPressed_IgnoresArming(d) ==
    SendMessageToIotHub([d EXCEPT !.armed = FALSE, !.led1 = Red], "That was easy")

\* ButtonsHandler, button B or the easy button reported pressed.
ConfirmPressed(d) ==
    IF d.armed
    THEN SendMessageToIotHub([d EXCEPT !.armed = FALSE, !.led1 = Red], "That was easy")
    ELSE d

(***************************************************************************)
(* main, before the loop.                                                   *)
(***************************************************************************)

\* Where InitPeripheralsAndHandlers can return -1.
InitOutcomes == {"ok", "gpioA", "gpioB", "gpioEasy", "azure", "epoll", "led1Timer",
                 "led2Timer", "buttonsTimer", "doWorkTimer"}

\* How many of the handles (in HandleOrder) are open when InitPeripheralsAndHandlers
\* returns with the given outcome: a failed open leaves its descriptor negative.
OpenedBy(outcome) ==
    CASE outcome = "gpioA" -> 0
      [] outcome = "gpioB" -> 1
      [] outcome = "gpioEasy" -> 2
      [] outcome = "azure" -> 4
      [] outcome = "epoll" -> 4
      [] outcome = "led1Timer" -> 5
      [] outcome = "led2Timer" -> 6
      [] outcome = "buttonsTimer" -> 7
      [] outcome = "doWorkTimer" -> 8
      [] OTHER -> Len(HandleOrder)

\* The buttons' GPIO opens.
GpioOutcomes == {"gpioA", "gpioB", "gpioEasy"}

\* main: InitPeripheralsAndHandlers(), and terminationRequired = true if it fails.
InitPeripheralsAndHandlers ==
    /\ pc = "init"
    /\ \E outcome \in InitOutcomes :
        /\ pc' = "loop"
        /\ terminationRequired' = (terminationRequired \/ outcome # "ok")
        /\ fds' = [h \in Handles |->
                     IF \E i \in 1 .. OpenedBy(outcome) : HandleOrder[i] = h
                     THEN "open" ELSE "unset"]
        /\ led1' = IF outcome \in GpioOutcomes \cup {"azure"} THEN led1 ELSE Off
        /\ led1TimerPeriod' =
               IF outcome \in GpioOutcomes \cup {"azure", "epoll", "led1Timer"}
               THEN led1TimerPeriod ELSE blinkingLedPeriod
        /\ event' = [h |-> "InitPeripheralsAndHandlers", outcome |-> outcome]
    /\ pressed' = NoPress /\ accepted' = FALSE /\ calls' = <<>>
    /\ UNCHANGED <<connectedToIoTHub, blinkIntervalIndex, blinkingLedPeriod,
                   blinkingLedState, ledBlinkColor, led2, led3, led2TimerExpiry,
                   buttonVars, easyButtonArmed, unconfirmed>>

(***************************************************************************)
(* The timer handlers.                                                      *)
(***************************************************************************)

\* Mutant: the confirm buttons are acted on before button A.
ButtonsHandler_ConfirmFirst ==
    /\ Running
    /\ \/ /\ terminationRequired' = TRUE
          /\ event' = [h |-> "ButtonsHandler", consumed |-> FALSE]
          /\ pressed' = NoPress /\ accepted' = FALSE /\ calls' = <<>>
          /\ UNCHANGED <<buttonVars, easyButtonArmed, led1, led2, led2TimerExpiry,
                         unconfirmed>>
       \/ \E ra, rb \in ReadOutcomes, re \in EasyReads,
             next \in IntIncrement(easyButtonCount) :
            LET a == IsButtonPressed(ra, blinkButtonState)
                b == IsButtonPressed(rb, messageButtonState)
                e == IsEasyButtonPressed(re.level, re.failed, next)
                d0 == ArmingState(<<>>)
                d1 == IF b.pressed THEN ConfirmPressed(d0) ELSE d0
                d2 == IF e.pressed THEN ConfirmPressed(d1) ELSE d1
                d3 == IF a.pressed THEN PrimaryPressed(d2) ELSE d2
            IN  /\ terminationRequired' =
                       (terminationRequired \/ a.failed \/ b.failed \/ re.failed)
                /\ blinkButtonState' = a.state
                /\ messageButtonState' = b.state
                /\ easyButtonState' = e.state
                /\ easyButtonCount' = e.count
                /\ easyButtonArmed' = d3.armed
                /\ led1' = d3.led1
                /\ led2' = d3.led2
                /\ led2TimerExpiry' = d3.led2Timer
                /\ calls' = d3.calls
                /\ unconfirmed' = unconfirmed + Cardinality(Sends(d3.calls))
                /\ pressed' = [A |-> a.pressed, B |-> b.pressed, E |-> e.pressed]
                /\ accepted' = e.accepted
                /\ event' = [h |-> "ButtonsHandler", consumed |-> TRUE,
                             a |-> ra, b |-> rb, e |-> re]
    /\ UNCHANGED <<mainVars, connectedToIoTHub, blinkVars, led3>>

\* ButtonsHandler: one 1 ms sampling tick.
ButtonsHandler ==
    /\ Running
    /\ \/ \* ConsumeTimerFdEvent fails
          /\ terminationRequired' = TRUE
          /\ event' = [h |-> "ButtonsHandler", consumed |-> FALSE]
          /\ pressed' = NoPress /\ accepted' = FALSE /\ calls' = <<>>
          /\ UNCHANGED <<buttonVars, easyButtonArmed, led1, led2, led2TimerExpiry,
                         unconfirmed>>
       \/ \E ra, rb \in ReadOutcomes, re \in EasyReads,
             next \in IntIncrement(easyButtonCount) :
            LET a == IsButtonPressed(ra, blinkButtonState)
                b == IsButtonPressed(rb, messageButtonState)
                e == IsEasyButtonPressed(re.level, re.failed, next)
                d0 == ArmingState(<<>>)
                d1 == IF a.pressed THEN PrimaryPressed(d0) ELSE d0
                d2 == IF b.pressed THEN ConfirmPressed(d1) ELSE d1
                d3 == IF e.pressed THEN ConfirmPressed(d2) ELSE d2
            IN  /\ terminationRequired' =
                       (terminationRequired \/ a.failed \/ b.failed \/ re.failed)
                /\ blinkButtonState' = a.state
                /\ messageButtonState' = b.state
                /\ easyButtonState' = e.state
                /\ easyButtonCount' = e.count
                /\ easyButtonArmed' = d3.armed
                /\ led1' = d3.led1
                /\ led2' = d3.led2
                /\ led2TimerExpiry' = d3.led2Timer
                /\ calls' = d3.calls
                /\ unconfirmed' = unconfirmed + Cardinality(Sends(d3.calls))
                /\ pressed' = [A |-> a.pressed, B |-> b.pressed, E |-> e.pressed]
                /\ accepted' = e.accepted
                /\ event' = [h |-> "ButtonsHandler", consumed |-> TRUE,
                             a |-> ra, b |-> rb, e |-> re]
    /\ UNCHANGED <<mainVars, connectedToIoTHub, blinkVars, led3>>

\* Led1UpdateHandler: the LED1 timer fired.
Led1UpdateHandler ==
    /\ Running
    /\ led1TimerPeriod # nullPeriod
    /\ \/ \* ConsumeTimerFdEvent fails
          /\ terminationRequired' = TRUE
          /\ event' = [h |-> "Led1UpdateHandler", consumed |-> FALSE]
          /\ UNCHANGED <<led3, blinkingLedState>>
       \/ /\ led3' = IF connectedToIoTHub THEN Green ELSE Off
          /\ blinkingLedState' = ~blinkingLedState
          /\ event' = [h |-> "Led1UpdateHandler", consumed |-> TRUE]
          /\ UNCHANGED terminationRequired
    /\ pressed' = NoPress /\ accepted' = FALSE /\ calls' = <<>>
    /\ UNCHANGED <<mainVars, connectedToIoTHub, blinkIntervalIndex, blinkingLedPeriod,
                   ledBlinkColor, led1, led2, led1TimerPeriod, led2TimerExpiry,
                   buttonVars, easyButtonArmed, unconfirmed>>

\* Led2UpdateHandler: the single expiry armed on the LED2 timer fired.
Led2UpdateHandler ==
    /\ Running
    /\ led2TimerExpiry # nullPeriod
    /\ \/ \* ConsumeTimerFdEvent fails
          /\ terminationRequired' = TRUE
          /\ event' = [h |-> "Led2UpdateHandler", consumed |-> FALSE]
          /\ UNCHANGED <<led2, led2TimerExpiry>>
       \/ /\ led2' = Off
          /\ led2TimerExpiry' = nullPeriod
          /\ event' = [h |-> "Led2UpdateHandler", consumed |-> TRUE]
          /\ UNCHANGED terminationRequired
    /\ pressed' = NoPress /\ accepted' = FALSE /\ calls' = <<>>
    /\ UNCHANGED <<mainVars, connectedToIoTHub, blinkVars, led1, led3, buttonVars,
                   easyButtonArmed, unconfirmed>>

(***************************************************************************)
(* The callbacks the connectivity client invokes from                       *)
(* AzureIoT_DoPeriodicTasks, on the loop thread.                            *)
(***************************************************************************)

\* Mutant: an inbound message does not flash LED2.
MessageReceived_NoFlash ==
    /\ Running
    /\ event' = [h |-> "MessageReceived"]
    /\ pressed' = NoPress /\ accepted' = FALSE /\ calls' = <<>>
    /\ UNCHANGED <<mainVars, terminationRequired, connectedToIoTHub, blinkVars, led1,
                   led2, led3, led2TimerExpiry, buttonVars, easyButtonArmed, unconfirmed>>

\* MessageReceived(payload)
MessageReceived ==
    /\ Running
    /\ LET d == BlinkLed2Once(ArmingState(<<>>))
       IN  led2' = d.led2 /\ led2TimerExpiry' = d.led2Timer
    /\ event' = [h |-> "MessageReceived"]
    /\ pressed' = NoPress /\ accepted' = FALSE /\ calls' = <<>>
    /\ UNCHANGED <<mainVars, terminationRequired, connectedToIoTHub, blinkVars, led1, led3,
                   buttonVars, easyButtonArmed, unconfirmed>>

\* MessageDelivered(delivered): the client confirms, or gives up on, one message
\* handed to it.
MessageDelivered ==
    /\ Running
    /\ unconfirmed > 0
    /\ unconfirmed' = unconfirmed - 1
    /\ \E delivered \in BOOLEAN :
          event' = [h |-> "MessageDelivered", delivered |-> delivered]
    /\ led1' = Green
    /\ pressed' = NoPress /\ accepted' = FALSE /\ calls' = <<>>
    /\ UNCHANGED <<mainVars, terminationRequired, connectedToIoTHub, blinkVars, led2, led3,
                   led2TimerExpiry, buttonVars, easyButtonArmed>>

\* Mutant: the connection-status callback writes LED3 itself.
IoTHubConnectionStatusChanged_WritesLed3 ==
    /\ Running
    /\ \E connected \in BOOLEAN :
          /\ connectedToIoTHub' = connected
          /\ led3' = IF connected THEN Green ELSE Off
          /\ event' = [h |-> "IoTHubConnectionStatusChanged", connected |-> connected]
    /\ pressed' = NoPress /\ accepted' = FALSE /\ calls' = <<>>
    /\ UNCHANGED <<mainVars, terminationRequired, blinkVars, led1, led2,
                   led2TimerExpiry, buttonVars, easyButtonArmed, unconfirmed>>

\* IoTHubConnectionStatusChanged(connected)
IoTHubConnectionStatusChanged ==
    /\ Running
    /\ \E connected \in BOOLEAN :
          /\ connectedToIoTHub' = connected
          /\ event' = [h |-> "IoTHubConnectionStatusChanged", connected |-> connected]
    /\ pressed' = NoPress /\ accepted' = FALSE /\ calls' = <<>>
    /\ UNCHANGED <<mainVars, terminationRequired, blinkVars, led1, led2, led3,
                   led2TimerExpiry, buttonVars, easyButtonArmed, unconfirmed>>

\* The desired properties a twin update can carry for "LedBlinkRateProperty".
DesiredValues ==
    {[kind |-> "missing"], [kind |-> "notNumber"]}
        \cup {[kind |-> "number", v |-> v] : v \in (0 - MaxDesired) .. MaxDesired}

\* Mutant: the type of the JSON value is not tested.
HasBlinkRate_NoTypeTest(desired) == desired.kind # "missing"

\* DeviceTwinUpdate's tests of the JSON value: "LedBlinkRateProperty" is present and
\* its type is JSONNumber.
HasBlinkRate(desired) == desired.kind = "number"

\* json_value_get_number: the number, and 0 for a value that is not a number.
json_value_get_number(desired) == IF desired.kind = "number" THEN desired.v ELSE 0

\* Mutant: the desired value is used as the index, unfolded.
FoldBlinkRate_NoFold(desiredBlinkRate) == desiredBlinkRate

\* DeviceTwinUpdate: desiredBlinkRate % blinkIntervalsCount
FoldBlinkRate(desiredBlinkRate) == desiredBlinkRate % blinkIntervalsCount

\* blinkIntervals[i]: an index outside the array reads whatever lies behind it.
BlinkIntervalAt(i) ==
    IF i \in 0 .. (blinkIntervalsCount - 1)
    THEN {blinkIntervals[i + 1]}
    ELSE {nullPeriod, defaultBlinkTimeLed2}

\* Mutant: the index is reported whether or not the hub is connected.
SetLedRate_AlwaysReports(rate, timerOk) ==
    IF ~timerOk
    THEN /\ terminationRequired' = TRUE
         /\ calls' = <<>>
         /\ UNCHANGED led1TimerPeriod
    ELSE /\ led1TimerPeriod' = rate
         /\ calls' = <<[fn |-> "AzureIoT_TwinReportState", arg |-> blinkIntervalIndex']>>
         /\ UNCHANGED terminationRequired

\* Mutant: a failed SetTimerFdToPeriod is logged but does not request termination.
SetLedRate_NoTermination(rate, timerOk) ==
    IF ~timerOk
    THEN /\ calls' = <<>>
         /\ UNCHANGED <<led1TimerPeriod, terminationRequired>>
    ELSE /\ led1TimerPeriod' = rate
         /\ calls' = IF connectedToIoTHub
                     THEN <<[fn |-> "AzureIoT_TwinReportState",
                             arg |-> blinkIntervalIndex']>>
                     ELSE <<>>
         /\ UNCHANGED terminationRequired

\* SetLedRate(rate): `timerOk` is whether SetTimerFdToPeriod returned 0.
SetLedRate(rate, timerOk) ==
    IF ~timerOk
    THEN /\ terminationRequired' = TRUE
         /\ calls' = <<>>
         /\ UNCHANGED led1TimerPeriod
    ELSE /\ led1TimerPeriod' = rate
         /\ calls' = IF connectedToIoTHub
                     THEN <<[fn |-> "AzureIoT_TwinReportState",
                             arg |-> blinkIntervalIndex']>>
                     ELSE <<>>
         /\ UNCHANGED terminationRequired

\* DeviceTwinUpdate(desiredProperties)
DeviceTwinUpdate ==
    /\ Running
    /\ \E desired \in DesiredValues :
        \/ /\ ~HasBlinkRate(desired)
           /\ event' = [h |-> "DeviceTwinUpdate", desired |-> desired]
           /\ calls' = <<>>
           /\ UNCHANGED <<terminationRequired, blinkIntervalIndex, blinkingLedPeriod,
                          led1TimerPeriod>>
        \/ /\ HasBlinkRate(desired)
           /\ \E desiredBlinkRate \in SizeTCast(json_value_get_number(desired)),
                 timerOk \in BOOLEAN :
                /\ blinkIntervalIndex' = FoldBlinkRate(desiredBlinkRate)
                /\ \E rate \in BlinkIntervalAt(blinkIntervalIndex') :
                      /\ blinkingLedPeriod' = rate
                      /\ SetLedRate(rate, timerOk)
                /\ event' = [h |-> "DeviceTwinUpdate", desired |-> desired,
                             desiredBlinkRate |-> desiredBlinkRate, timerOk |-> timerOk]
    /\ pressed' = NoPress /\ accepted' = FALSE
    /\ UNCHANGED <<mainVars, connectedToIoTHub, blinkingLedState, ledBlinkColor, led1, led2,
                   led3, led2TimerExpiry, buttonVars, easyButtonArmed, unconfirmed>>

\* RgbLedUtility_Colors_Unknown: what RgbLedUtility_GetColorFromString returns for a
\* name it does not know.
Unknown == "Unknown"

\* The colours a direct method can name.
Colors == {Red, Green, Blue}

\* The method names a direct-method call can carry.
MethodNames == {"LedColorControlMethod", "Foo"}

\* What the payload of a direct-method call parses to: json_parse_string fails, the
\* value is not an object, the object has no string "color", or it has one, which
\* RgbLedUtility_GetColorFromString maps to ledColor.
Payloads ==
    {[parse |-> "unparseable"], [parse |-> "notObject"], [parse |-> "noColor"]}
        \cup {[parse |-> "color", ledColor |-> c] : c \in Colors \cup {Unknown}}

\* Mutant: the colour found is not compared with RgbLedUtility_Colors_Unknown.
DirectMethodResult_AnyColor(methodName, payload) ==
    IF methodName # "LedColorControlMethod" THEN 404
    ELSE IF payload.parse # "color" THEN 400
    ELSE 200

\* DirectMethodCall's HTTP status code.
DirectMethodResult(methodName, payload) ==
    IF methodName # "LedColorControlMethod" THEN 404
    ELSE IF payload.parse # "color" THEN 400
    ELSE IF payload.ledColor = Unknown THEN 400
    ELSE 200

\* Which allocation of a direct-method call returns NULL: none, the copy of the request
\* payload (malloc), or the response (SetupHeapMessage).
HeapOutcomes == {"ok", "request", "response"}

\* DirectMethodCall(methodName, payload, payloadSize, responsePayload,
\* responsePayloadSize).  A failed allocation aborts the process.  On the 200 path
\* strlen(payload) reads the caller's buffer, which is payloadSize bytes without a
\* terminator: the read beyond it either finds a zero byte or faults (`fault`).  A call
\* that does not return records result 0.
DirectMethodCall ==
    /\ Running
    /\ \E methodName \in MethodNames, payload \in Payloads, heap \in HeapOutcomes,
          fault \in BOOLEAN :
        LET result == DirectMethodResult(methodName, payload)
            died == IF result = 404 THEN heap = "response"
                    ELSE heap # "ok" \/ (result = 200 /\ fault)
        IN  /\ ledBlinkColor' = IF result = 200 /\ heap # "request"
                                THEN payload.ledColor ELSE ledBlinkColor
            /\ pc' = IF died THEN "aborted" ELSE pc
            /\ event' = [h |-> "DirectMethodCall", methodName |-> methodName,
                         payload |-> payload, result |-> IF died THEN 0 ELSE result]
    /\ pressed' = NoPress /\ accepted' = FALSE /\ calls' = <<>>
    /\ UNCHANGED <<fds, terminationRequired, connectedToIoTHub, blinkIntervalIndex,
                   blinkingLedPeriod, blinkingLedState, led1, led2, led3,
                   led1TimerPeriod, led2TimerExpiry, buttonVars, easyButtonArmed,
                   unconfirmed>>

\* AzureIotDoWorkHandler: the 1 s timer fired.  The callbacks AzureIoT_DoPeriodicTasks
\* invokes are the actions above.
AzureIotDoWorkHandler ==
    /\ Running
    /\ \E consumed \in BOOLEAN :
          /\ terminationRequired' = (terminationRequired \/ ~consumed)
          /\ event' = [h |-> "AzureIotDoWorkHandler", consumed |-> consumed]
    /\ pressed' = NoPress /\ accepted' = FALSE /\ calls' = <<>>
    /\ UNCHANGED <<mainVars, connectedToIoTHub, blinkVars, led1, led2, led3,
                   led2TimerExpiry, buttonVars, easyButtonArmed, unconfirmed>>

(***************************************************************************)
(* main: the loop and the shutdown.  A handler action above is one round of *)
(* the loop: the test of terminationRequired, the wait and the dispatch.    *)
(* No handler reads terminationRequired and each only ever sets it, so a    *)
(* signal delivered in the middle of a round leaves the state a signal      *)
(* delivered right after it leaves.                                         *)
(***************************************************************************)

\* TerminationHandler(signalNumber): SIGTERM, delivered at any time once
\* InitPeripheralsAndHandlers has registered the handler.
TerminationHandler ==
    /\ pc = "loop"
    /\ terminationRequired' = TRUE
    /\ UNCHANGED <<mainVars, connectedToIoTHub, blinkVars, led1, led2, led3,
                   led2TimerExpiry, buttonVars, easyButtonArmed, event, pressed,
                   accepted, calls, unconfirmed>>

\* main: WaitForEventAndCallHandler(epollFd) != 0, a round that dispatches nothing.
WaitForEventAndCallHandlerFails ==
    /\ Running
    /\ terminationRequired' = TRUE
    /\ event' = [h |-> "WaitForEventAndCallHandler", failed |-> TRUE]
    /\ pressed' = NoPress /\ accepted' = FALSE /\ calls' = <<>>
    /\ UNCHANGED <<mainVars, connectedToIoTHub, blinkVars, led1, led2, led3,
                   led2TimerExpiry, buttonVars, easyButtonArmed, unconfirmed>>

\* Mutant: the easy button's descriptor is not closed.
CloseOrder_SkipsEasyButton ==
    <<"gpioLedBlinkRateButtonFd", "gpioSendMessageButtonFd",
      "gpioButtonsManagementTimerFd", "azureIotDoWorkTimerFd", "gpioLed1TimerFd",
      "gpioLed2TimerFd", "epollFd", "rgbLeds">>

\* Mutant: the epoll descriptor is closed a second time.
CloseOrder_ClosesEpollTwice ==
    <<"gpioLedBlinkRateButtonFd", "gpioSendMessageButtonFd", "gpioEasyButtonFd",
      "gpioButtonsManagementTimerFd", "azureIotDoWorkTimerFd", "gpioLed1TimerFd",
      "gpioLed2TimerFd", "epollFd", "epollFd", "rgbLeds">>

\* The handles ClosePeripheralsAndHandlers closes, in its order.
CloseOrder ==
    <<"gpioLedBlinkRateButtonFd", "gpioSendMessageButtonFd", "gpioEasyButtonFd",
      "gpioButtonsManagementTimerFd", "azureIotDoWorkTimerFd", "gpioLed1TimerFd",
      "gpioLed2TimerFd", "epollFd", "rgbLeds">>

\* CloseFdAndPrintError(fd, name), and RgbLedUtility_CloseLeds for the LED GPIOs: an
\* open handle is released; a descriptor that was never opened (negative) releases
\* nothing.
CloseFdAndPrintError(f, h) ==
    [f EXCEPT ![h] = IF @ = "open" THEN "closed"
                     ELSE IF @ = "closed" THEN "closedTwice"
                     ELSE @]

RECURSIVE CloseAll(_, _)
\* The closes of ClosePeripheralsAndHandlers applied in order.
CloseAll(f, order) ==
    IF order = <<>> THEN f
    ELSE CloseAll(CloseFdAndPrintError(f, Head(order)), Tail(order))

\* main, once the loop has seen terminationRequired: ClosePeripheralsAndHandlers() and
\* return.  The LEDs are closed and left off.
ClosePeripheralsAndHandlers ==
    /\ pc = "loop"
    /\ terminationRequired
    /\ pc' = "exited"
    /\ fds' = CloseAll(fds, CloseOrder)
    /\ led1' = Off /\ led2' = Off /\ led3' = Off
    /\ event' = [h |-> "ClosePeripheralsAndHandlers"]
    /\ pressed' = NoPress /\ accepted' = FALSE /\ calls' = <<>>
    /\ UNCHANGED <<terminationRequired, connectedToIoTHub, blinkVars, led2TimerExpiry,
                   buttonVars, easyButtonArmed, unconfirmed>>

(***************************************************************************)
(* Specifications.  Each takes the handlers and callbacks that read or      *)
(* write the state its properties are about, and adds the history           *)
(* variables that observe them.                                             *)
(***************************************************************************)

\* The running device after EasyThreshold + 1 sampling ticks in which no button was
\* touched (A and B read high, the easy button low): Init, InitPeripheralsAndHandlers,
\* then that many ButtonsHandler runs.
IdleInit ==
    /\ pc = "loop"
    /\ fds = [h \in Handles |-> "open"]
    /\ terminationRequired = FALSE
    /\ connectedToIoTHub = FALSE
    /\ blinkIntervalIndex = 0
    /\ blinkingLedPeriod = blinkIntervals[1]
    /\ blinkingLedState = FALSE
    /\ ledBlinkColor = Blue
    /\ led1 = Off /\ led2 = Off /\ led3 = Off
    /\ led1TimerPeriod = blinkIntervals[1]
    /\ led2TimerExpiry = nullPeriod
    /\ blinkButtonState = High
    /\ messageButtonState = High
    /\ easyButtonState = Low
    /\ easyButtonCount = EasyThreshold + 1
    /\ easyButtonArmed = FALSE
    /\ event = [h |-> "ButtonsHandler", consumed |-> TRUE, a |-> High, b |-> High,
                e |-> [failed |-> FALSE, level |-> Low]]
    /\ pressed = NoPress
    /\ accepted = FALSE
    /\ calls = <<>>
    /\ unconfirmed = 0
    /\ ticks = 0
    /\ sendCount = 0
    /\ primaryCount = 0
    /\ sinceAccept = EasyThreshold + 1
    /\ acceptedLevel = Low
    /\ lowRunReports = [b \in EdgeButtons |-> 0]
    /\ seenHigh = [b \in EdgeButtons |-> TRUE]
    /\ rounds = 0

\* A sampling tick, counted, with its sends and primary presses counted.
ArmingTick ==
    /\ ticks < MaxTicks
    /\ ButtonsHandler
    /\ ticks' = ticks + 1
    /\ sendCount' = sendCount + Cardinality(Sends(calls'))
    /\ primaryCount' = primaryCount + (IF pressed'.A THEN 1 ELSE 0)
    /\ UNCHANGED <<sinceAccept, acceptedLevel, lowRunReports, seenHigh, rounds>>

NextArming ==
    \/ InitPeripheralsAndHandlers /\ UNCHANGED histVars
    \/ ArmingTick
    \/ Led2UpdateHandler /\ UNCHANGED histVars
    \/ MessageReceived /\ UNCHANGED histVars
    \/ MessageDelivered /\ UNCHANGED histVars
    \/ IoTHubConnectionStatusChanged /\ UNCHANGED histVars

\* The arming gesture: the sampling tick and the callbacks that write what it writes,
\* from start-up and from the idle device, for MaxTicks ticks.
SpecArming == (Init \/ IdleInit) /\ [][NextArming]_vars

\* lowRunReports after a tick that read `read` and reported `report`.
RunReports(n, read, report) ==
    IF read = High THEN 0
    ELSE IF read = Low THEN n + (IF report THEN 1 ELSE 0)
    ELSE n

\* A sampling tick with the debouncers observed.
DebounceTick ==
    /\ easyButtonCount < MaxCount
    /\ ButtonsHandler
    /\ IF event'.consumed
       THEN /\ sinceAccept' = IF accepted' THEN 0 ELSE sinceAccept + 1
            /\ acceptedLevel' = IF accepted' THEN easyButtonState' ELSE acceptedLevel
            /\ lowRunReports' =
                  [b \in EdgeButtons |->
                      IF b = "A" THEN RunReports(lowRunReports[b], event'.a, pressed'.A)
                      ELSE RunReports(lowRunReports[b], event'.b, pressed'.B)]
            /\ seenHigh' =
                  [b \in EdgeButtons |->
                      seenHigh[b] \/ (IF b = "A" THEN event'.a ELSE event'.b) = High]
       ELSE UNCHANGED <<sinceAccept, acceptedLevel, lowRunReports, seenHigh>>
    /\ UNCHANGED <<ticks, sendCount, primaryCount, rounds>>

NextDebounce ==
    \/ InitPeripheralsAndHandlers /\ UNCHANGED histVars
    \/ DebounceTick

\* The debouncers: every sequence of sampled levels from start-up, the easy-button
\* count explored up to MaxCount.
SpecDebounce == Init /\ [][NextDebounce]_vars

NextBlink ==
    \/ InitPeripheralsAndHandlers /\ UNCHANGED histVars
    \/ DeviceTwinUpdate /\ UNCHANGED histVars
    \/ IoTHubConnectionStatusChanged /\ UNCHANGED histVars
    \/ Led1UpdateHandler /\ UNCHANGED histVars
    \/ DirectMethodCall /\ UNCHANGED histVars

\* The blink controller: twin updates, direct-method calls, connectivity changes and
\* the LED1 timer.
SpecBlink == Init /\ [][NextBlink]_vars

NextOffline ==
    \/ InitPeripheralsAndHandlers /\ UNCHANGED histVars
    \/ ArmingTick
    \/ IoTHubConnectionStatusChanged /\ UNCHANGED histVars
    \/ DeviceTwinUpdate /\ UNCHANGED histVars

\* Sends and reports against the connectivity state: the sampling tick, the twin update
\* and the connection-status callback, from start-up and from the idle device.
SpecOffline == (Init \/ IdleInit) /\ [][NextOffline]_vars

\* A dispatch that can trigger the LED2 flash, counted: a sampling tick or an inbound
\* message.
NotifyRound ==
    /\ rounds < MaxRounds
    /\ ButtonsHandler \/ MessageReceived
    /\ rounds' = rounds + 1
    /\ UNCHANGED <<ticks, sendCount, primaryCount, sinceAccept, acceptedLevel,
                   lowRunReports, seenHigh>>

NextNotify ==
    \/ InitPeripheralsAndHandlers /\ UNCHANGED histVars
    \/ NotifyRound
    \/ Led2UpdateHandler /\ UNCHANGED histVars
    \/ MessageDelivered /\ UNCHANGED histVars
    \/ IoTHubConnectionStatusChanged /\ UNCHANGED histVars

\* The LED2 flash: MaxRounds dispatches that can trigger it, so that there is a last
\* trigger, and the one-shot timer, which fires once armed if the loop keeps running
\* (epoll reports the expired timer and main dispatches its handler).
SpecNotify ==
    /\ Init \/ IdleInit
    /\ [][NextNotify]_vars
    /\ WF_vars(Led2UpdateHandler /\ UNCHANGED histVars)

\* One round of main's loop, counted: the dispatch of a timer handler, or a failed
\* wait.
LifeRound ==
    /\ rounds < MaxRounds
    /\ \/ ButtonsHandler
       \/ Led1UpdateHandler
       \/ Led2UpdateHandler
       \/ AzureIotDoWorkHandler
       \/ WaitForEventAndCallHandlerFails
    /\ rounds' = rounds + 1
    /\ UNCHANGED <<ticks, sendCount, primaryCount, sinceAccept, acceptedLevel,
                   lowRunReports, seenHigh>>

NextLife ==
    \/ InitPeripheralsAndHandlers /\ UNCHANGED histVars
    \/ LifeRound
    \/ MessageReceived /\ UNCHANGED histVars
    \/ DeviceTwinUpdate /\ UNCHANGED histVars
    \/ TerminationHandler /\ UNCHANGED histVars
    \/ ClosePeripheralsAndHandlers /\ UNCHANGED histVars

\* The life of the process: start-up, MaxRounds rounds of the loop, SIGTERM at any
\* time, shutdown.  main is one thread that runs on: once the loop's test sees the
\* flag, ClosePeripheralsAndHandlers is called (weak fairness).  A flag set while main
\* waits is seen when the wait returns, which the 1 ms buttons timer ensures.
SpecLife ==
    /\ Init
    /\ [][NextLife]_vars
    /\ WF_vars(ClosePeripheralsAndHandlers /\ UNCHANGED histVars)

\* The running device after INT_MAX - 1 sampling ticks in which no button was touched
\* (about 24.9 days at one tick per millisecond): every such tick leaves everything as
\* it was but easyButtonCount, which it increments.
LongIdleInit ==
    /\ pc = "loop"
    /\ fds = [h \in Handles |-> "open"]
    /\ terminationRequired = FALSE
    /\ connectedToIoTHub = FALSE
    /\ blinkIntervalIndex = 0
    /\ blinkingLedPeriod = blinkIntervals[1]
    /\ blinkingLedState = FALSE
    /\ ledBlinkColor = Blue
    /\ led1 = Off /\ led2 = Off /\ led3 = Off
    /\ led1TimerPeriod = blinkIntervals[1]
    /\ led2TimerExpiry = nullPeriod
    /\ blinkButtonState = High
    /\ messageButtonState = High
    /\ easyButtonState = Low
    /\ easyButtonCount = INT_MAX - 1
    /\ easyButtonArmed = FALSE
    /\ event = [h |-> "ButtonsHandler", consumed |-> TRUE, a |-> High, b |-> High,
                e |-> [failed |-> FALSE, level |-> Low]]
    /\ pressed = NoPress
    /\ accepted = FALSE
    /\ calls = <<>>
    /\ unconfirmed = 0
    /\ ticks = 0
    /\ sendCount = 0
    /\ primaryCount = 0
    /\ sinceAccept = INT_MAX - 1
    /\ acceptedLevel = Low
    /\ lowRunReports = [b \in EdgeButtons |-> 0]
    /\ seenHigh = [b \in EdgeButtons |-> TRUE]
    /\ rounds = 0

\* A sampling tick after the long idle period, counted.
OverflowTick ==
    /\ ticks < MaxTicks
    /\ ButtonsHandler
    /\ ticks' = ticks + 1
    /\ UNCHANGED <<sendCount, primaryCount, sinceAccept, acceptedLevel, lowRunReports,
                   seenHigh, rounds>>

\* The easy button's count at the end of the range of int: MaxTicks sampling ticks from
\* the device that has idled for INT_MAX - 1 ticks.
SpecOverflow == LongIdleInit /\ [][OverflowTick]_vars

(***************************************************************************)
(* Properties.                                                              *)
(***************************************************************************)

\* The last dispatch was a sampling tick that consumed its timer event and sampled
\* the buttons.
TickDone == event.h = "ButtonsHandler" /\ event.consumed

\* The only call of a dispatch that sends: the fixed payload, once.
OneSend == <<[fn |-> "AzureIoT_SendMessage", arg |-> "That was easy"]>>

ConfirmReported == pressed.B \/ pressed.E

(* C1, as claimed: a confirm press (button B or the easy button) reported in a tick
   that began Armed leaves the device Disarmed with LED1 red, has invoked the send
   exactly once with "That was easy", and has set LED2 red with its one-shot timer
   armed. *)
C1_Original ==
    [][(TickDone' /\ ConfirmReported' /\ easyButtonArmed)
          => /\ ~easyButtonArmed'
             /\ led1' = Red
             /\ calls' = OneSend
             /\ sendCount' = sendCount + 1
             /\ led2' = Red
             /\ led2TimerExpiry' = defaultBlinkTimeLed2]_vars

(* C1, amended: a confirm press reported in a tick that began Armed leaves the device
   Disarmed with LED1 red; if the hub is connected the send is invoked exactly once
   with "That was easy" and LED2 is set red with its one-shot timer armed; if it is
   not connected nothing is sent and LED2 and its timer are left as they were. *)
C1_ConfirmWhileArmed ==
    [][(TickDone' /\ ConfirmReported' /\ easyButtonArmed)
          => /\ ~easyButtonArmed'
             /\ led1' = Red
             /\ IF connectedToIoTHub
                THEN /\ calls' = OneSend
                     /\ sendCount' = sendCount + 1
                     /\ led2' = Red
                     /\ led2TimerExpiry' = defaultBlinkTimeLed2
                ELSE /\ calls' = <<>>
                     /\ sendCount' = sendCount
                     /\ led2' = led2
                     /\ led2TimerExpiry' = led2TimerExpiry]_vars

\* C1's case: the easy button's press was reported to an armed, connected device,
\* which fired.
C1_Witness ==
    /\ TickDone /\ pressed.E /\ ~pressed.A /\ ~pressed.B
    /\ calls = OneSend /\ led1 = Red /\ led2 = Red /\ ~easyButtonArmed

(* C2: the send is invoked only in a tick in which a confirm press is reported while
   the device is armed (armed before the tick, or by button A earlier in the same
   tick), and then once; the arming flag is set only by a tick that reports a primary
   press; a confirm press while Disarmed sends nothing and leaves the flag clear; so
   the sends never outnumber the primary presses, and there is none before the first
   primary press. *)
C2_SendOnlyWhenArmed ==
    /\ [](sendCount <= primaryCount)
    /\ [][sendCount' # sendCount
             => /\ TickDone' /\ ConfirmReported'
                /\ (easyButtonArmed \/ pressed'.A)
                /\ sendCount' = sendCount + 1]_vars
    /\ [][(easyButtonArmed' /\ ~easyButtonArmed) => (TickDone' /\ pressed'.A)]_vars
    /\ [][(TickDone' /\ ConfirmReported' /\ ~easyButtonArmed /\ ~pressed'.A)
             => /\ calls' = <<>>
                /\ sendCount' = sendCount
                /\ ~easyButtonArmed']_vars

\* C2's case: button B and the easy button both reported a press in one tick, and
\* every primary press so far has been answered by one send.
C2_Witness ==
    /\ TickDone /\ pressed.B /\ pressed.E
    /\ sendCount = primaryCount /\ sendCount >= 1

(* C3, as claimed: a tick that begins Disarmed and reports a primary press ends Armed
   with LED1 blue. *)
C3_Original ==
    [][(TickDone' /\ pressed'.A /\ ~easyButtonArmed)
          => (easyButtonArmed' /\ led1' = Blue)]_vars

(* C3, amended: a tick that begins Disarmed and reports a primary press ends Armed with
   LED1 blue provided no confirm press is reported in the same tick; if one is, the
   device arms and fires within the tick and ends Disarmed with LED1 red. *)
C3_PrimaryArms ==
    [][(TickDone' /\ pressed'.A /\ ~easyButtonArmed)
          => IF ConfirmReported'
             THEN ~easyButtonArmed' /\ led1' = Red
             ELSE easyButtonArmed' /\ led1' = Blue]_vars

\* C3's case: the first primary press, alone in its tick, has armed the device.
C3_Witness ==
    /\ TickDone /\ pressed.A /\ ~ConfirmReported
    /\ primaryCount = 1 /\ easyButtonArmed /\ led1 = Blue

\* A tick that reports only a primary press, and one that reports only confirm presses.
OnlyPrimary == pressed.A /\ ~ConfirmReported
OnlyConfirm == ConfirmReported /\ ~pressed.A

(* C4, as claimed: a primary press while Armed and a confirm press while Disarmed leave
   the arming flag, every LED colour and the sends as they were. *)
C4_Original ==
    [][(TickDone' /\ \/ OnlyPrimary' /\ easyButtonArmed
                     \/ OnlyConfirm' /\ ~easyButtonArmed)
          => /\ easyButtonArmed' = easyButtonArmed
             /\ led1' = led1 /\ led2' = led2 /\ led3' = led3
             /\ calls' = <<>> /\ sendCount' = sendCount]_vars

(* C4, amended: a confirm press while Disarmed leaves the arming flag, every LED colour
   and the sends as they were; a primary press while Armed leaves the arming flag,
   LED2, LED3 and the sends as they were and sets LED1 to blue again, which changes it
   when a message-delivery callback has recoloured it since the device armed. *)
C4_PressInTargetState ==
    /\ [][(TickDone' /\ OnlyConfirm' /\ ~easyButtonArmed)
             => /\ easyButtonArmed' = easyButtonArmed
                /\ led1' = led1 /\ led2' = led2 /\ led3' = led3
                /\ calls' = <<>> /\ sendCount' = sendCount]_vars
    /\ [][(TickDone' /\ OnlyPrimary' /\ easyButtonArmed)
             => /\ easyButtonArmed' = easyButtonArmed
                /\ led1' = Blue /\ led2' = led2 /\ led3' = led3
                /\ calls' = <<>> /\ sendCount' = sendCount]_vars

\* C4's case: a second primary press was reported, alone in its tick, with nothing
\* sent since the first.
C4_Witness ==
    /\ TickDone /\ OnlyPrimary /\ primaryCount = 2 /\ sendCount = 0
    /\ easyButtonArmed /\ led1 = Blue

(* C5: the edge debouncer reports a press of button A or B exactly on a tick whose
   sampled level is low and differs from the level stored before it; so a run of low
   samples holds at most one report (between two reports of a button a tick sampled
   it high), and a report is always preceded by a high sample: a button held low
   from the first sample on is not reported. *)
C5_EdgeDebounce ==
    /\ [][TickDone'
             => /\ pressed'.A = (event'.a = Low /\ blinkButtonState # event'.a)
                /\ pressed'.B = (event'.b = Low /\ messageButtonState # event'.b)]_vars
    /\ [](\A b \in EdgeButtons : lowRunReports[b] <= 1)
    /\ []((pressed.A => seenHigh["A"]) /\ (pressed.B => seenHigh["B"]))

\* C5's case: button A was reported once and is still held low, ticks later, with no
\* second report.
C5_Witness ==
    /\ TickDone /\ event.a = Low /\ ~pressed.A
    /\ lowRunReports["A"] = 1 /\ seenHigh["A"]

(* C6: the threshold debouncer accepts no transition of the easy button, and reports
   no press, within EasyThreshold (450) ticks of the previous accepted transition or
   of start-up. *)
C6_NoAcceptInWindow ==
    [][(TickDone' /\ (accepted' \/ pressed'.E)) => sinceAccept >= EasyThreshold]_vars

\* C6's case: a transition of the easy button (here a release, which reports nothing)
\* was accepted, the window having passed.
C6_Witness ==
    /\ TickDone /\ accepted /\ ~pressed.E
    /\ easyButtonState = Low /\ easyButtonCount = 0 /\ sinceAccept = 0

\* What C7 says of an accepted transition and of a report, apart from the level the
\* sampled level is compared with.
C7_AcceptAndReport ==
    /\ [][(TickDone' /\ pressed'.E) => sinceAccept >= EasyThreshold]_vars
    /\ [][(TickDone' /\ accepted')
             => (easyButtonCount' = 0 /\ easyButtonState' = event'.e.level)]_vars
    /\ [][(TickDone' /\ pressed'.E) => (accepted' /\ event'.e.level = High)]_vars

(* C7, as claimed: a press is reported only when the sampled level differs from the
   last accepted level and at least 450 ticks have passed since the last accepted
   transition; an accepted transition resets the count to 0 and stores the sampled
   level; a press is reported only for an accepted transition to high. *)
C7_Original ==
    /\ [][(TickDone' /\ pressed'.E) => event'.e.level # acceptedLevel]_vars
    /\ C7_AcceptAndReport

(* C7, amended: a press is reported only when the sampled level differs from the level
   stored by the previous tick (the last sampled level: a change inside the window
   overwrites it without being accepted, so it can equal the last accepted level) and
   at least 450 ticks have passed since the last accepted transition; an accepted
   transition resets the count to 0 and stores the sampled level; a press is reported
   only for an accepted transition to high. *)
C7_ThresholdDebounce ==
    /\ [][(TickDone' /\ pressed'.E) => event'.e.level # easyButtonState]_vars
    /\ C7_AcceptAndReport

\* C7's case: a transition to high was accepted and reported as a press.
C7_Witness ==
    /\ TickDone /\ accepted /\ pressed.E /\ event.e.level = High
    /\ easyButtonCount = 0 /\ easyButtonState = High

\* The last dispatch was a twin update carrying a number.
TwinNumber == event.h = "DeviceTwinUpdate" /\ event.desired.kind = "number"

\* The call of a dispatch that reports index i.
OneReport(i) == <<[fn |-> "AzureIoT_TwinReportState", arg |-> i]>>

(* C8: blinkIntervalIndex is in [0, N), N = 3, in every reachable state, whatever
   integer the twin updates carry; a twin update whose value is the current (folded)
   index leaves the index as it is. *)
C8_IndexInRange ==
    /\ [](blinkIntervalsCount = 3 /\ blinkIntervalIndex \in 0 .. (blinkIntervalsCount - 1))
    /\ [][(TwinNumber' /\ event'.desired.v = blinkIntervalIndex)
             => blinkIntervalIndex' = blinkIntervalIndex]_vars

\* C8's case: a twin update carried a value outside [0, N) and the index is folded.
C8_Witness ==
    /\ TwinNumber /\ event.desired.v = 5 /\ blinkIntervalIndex = 2

(* C9, as claimed: after a twin update carrying the number v the index is v mod N, the
   LED1 timer's period is preset[v mod N], and the folded index has been reported if
   and only if the hub is connected. *)
C9_Original ==
    TwinNumber =>
        LET i == event.desired.v % blinkIntervalsCount
        IN  /\ blinkIntervalIndex = i
            /\ blinkingLedPeriod = blinkIntervals[i + 1]
            /\ led1TimerPeriod = blinkIntervals[i + 1]
            /\ calls = (IF connectedToIoTHub THEN OneReport(i) ELSE <<>>)

(* C9, amended: after a twin update carrying the number v the index is the converted
   value modulo N: v mod N for v >= 0 (the conversion of a negative v to size_t is
   undefined, and the index is then only known to be in [0, N)), and blinkingLedPeriod
   is its preset.  If SetTimerFdToPeriod succeeds, the LED1 timer's period is that
   preset and the index has been reported if and only if the hub is connected; if it
   fails, the termination flag is set and nothing is reported. *)
C9_TwinUpdateApplied ==
    TwinNumber =>
        LET i == blinkIntervalIndex
        IN  /\ i \in 0 .. (blinkIntervalsCount - 1)
            /\ i = event.desiredBlinkRate % blinkIntervalsCount
            /\ event.desired.v >= 0 => i = event.desired.v % blinkIntervalsCount
            /\ blinkingLedPeriod = blinkIntervals[i + 1]
            /\ IF event.timerOk
               THEN /\ led1TimerPeriod = blinkIntervals[i + 1]
                    /\ calls = (IF connectedToIoTHub THEN OneReport(i) ELSE <<>>)
                    /\ ~terminationRequired
               ELSE terminationRequired /\ calls = <<>>

\* C9's case: the desired value 5 arrived while connected: index 2, 500 ms, reported.
C9_Witness ==
    /\ TwinNumber /\ event.desired.v = 5 /\ event.timerOk /\ connectedToIoTHub
    /\ blinkIntervalIndex = 2 /\ led1TimerPeriod = 500 /\ calls = OneReport(2)

(* C10: a twin update in which LedBlinkRateProperty is missing or is not a number
   changes no state of the device and reports nothing. *)
C10_MalformedTwinIgnored ==
    [][(event'.h = "DeviceTwinUpdate" /\ event'.desired.kind # "number")
          => /\ calls' = <<>>
             /\ UNCHANGED <<blinkIntervalIndex, blinkingLedPeriod, led1TimerPeriod,
                            blinkingLedState, ledBlinkColor, easyButtonArmed,
                            terminationRequired, connectedToIoTHub, led1, led2, led3,
                            led2TimerExpiry, buttonVars, unconfirmed, mainVars>>]_vars

\* C10's case: an update without a number arrived after the index had been moved.
C10_Witness ==
    /\ event.h = "DeviceTwinUpdate" /\ event.desired.kind = "notNumber"
    /\ blinkIntervalIndex = 2 /\ led1TimerPeriod = 500 /\ connectedToIoTHub

\* The step is a sampling tick that reaches SendMessageToIotHub: a confirm press is
\* reported with the device armed, before the tick or by button A within it.
SendAttempted == TickDone' /\ ConfirmReported' /\ (easyButtonArmed \/ pressed'.A)

\* The step is a twin update that reaches SetLedRate's test of the connection.
ReportAttempted == TwinNumber' /\ event'.timerOk

\* What C11 says of the capability: it is invoked only while connected, and a change of
\* connectivity invokes nothing (nothing was queued, nothing is retried).
C11_NothingQueued ==
    /\ [][~connectedToIoTHub => (calls' = <<>> /\ sendCount' = sendCount)]_vars
    /\ [][event'.h = "IoTHubConnectionStatusChanged"
             => (calls' = <<>> /\ sendCount' = sendCount)]_vars
    /\ [][(ReportAttempted /\ ~connectedToIoTHub)
             => UNCHANGED <<easyButtonArmed, led1, blinkingLedState, ledBlinkColor>>]_vars

(* C11, as claimed: while the hub is not connected an attempted send or report invokes
   nothing, nothing is sent when the connection returns, and the attempt leaves the
   arming flag and the blink state as they were, the blink index apart. *)
C11_Original ==
    /\ C11_NothingQueued
    /\ [][(SendAttempted /\ ~connectedToIoTHub)
             => UNCHANGED <<easyButtonArmed, blinkVars>>]_vars

(* C11, amended: while the hub is not connected an attempted send or report invokes
   nothing and nothing is sent when the connection returns; the attempted report leaves
   the arming flag and the blink state as they were, the blink index and its period
   apart; the attempted send leaves the blink state and LED2 as they were, but the
   confirm press that attempts it still disarms the device and sets LED1 red. *)
C11_DisconnectedAttempt ==
    /\ C11_NothingQueued
    /\ [][(SendAttempted /\ ~connectedToIoTHub)
             => /\ ~easyButtonArmed' /\ led1' = Red
                /\ UNCHANGED <<blinkVars, led2, led2TimerExpiry>>]_vars

\* C11's case: an armed, disconnected device took a confirm press: it fired locally and
\* nothing was sent.
C11_Witness ==
    /\ TickDone /\ ConfirmReported /\ ~pressed.A /\ ~connectedToIoTHub
    /\ led1 = Red /\ ~easyButtonArmed /\ calls = <<>>
    /\ primaryCount = 1 /\ sendCount = 0

\* The last dispatch triggered the LED2 flash: an inbound message, or a send.
Triggered == event.h = "MessageReceived" \/ Sends(calls) # {}

\* The last dispatch was the expiry of the LED2 timer.
Led2Expired == event.h = "Led2UpdateHandler"

\* What C12 says of the trigger, and of LED2 between the trigger and the expiry.
C12_TriggerAndHold ==
    /\ [][Triggered' => (led2' = Red /\ led2TimerExpiry' = defaultBlinkTimeLed2)]_vars
    /\ [][(led2 = Red /\ led2' # Red) => (Led2Expired' /\ led2' = Off)]_vars
    /\ (led2 = Red) ~> (led2 = Off \/ terminationRequired)

(* C12, as claimed: every trigger sets LED2 red and arms the one-shot timer for the
   fixed delay, also when it was armed already; the expiry of the timer blanks LED2;
   LED2 stays red until the expiry and is eventually off if the loop keeps
   dispatching. *)
C12_Original ==
    /\ C12_TriggerAndHold
    /\ [][Led2Expired' => led2' = Off]_vars

(* C12, amended: every trigger sets LED2 red and arms the one-shot timer for the fixed
   delay, also when it was armed already; the expiry of the timer blanks LED2 if its
   timer event is consumed, and if consuming it fails LED2 is left as it is and the
   termination flag is set; LED2 stays red until the expiry and is eventually off if
   the loop keeps dispatching. *)
C12_Led2Flash ==
    /\ C12_TriggerAndHold
    /\ [][Led2Expired'
             => IF event'.consumed
                THEN led2' = Off /\ led2TimerExpiry' = nullPeriod
                ELSE led2' = led2 /\ terminationRequired']_vars

\* C12's case: after the last trigger the timer expired and blanked LED2.
C12_Witness ==
    /\ Led2Expired /\ event.consumed /\ rounds = MaxRounds
    /\ led2 = Off /\ led2TimerExpiry = nullPeriod /\ ~terminationRequired

\* LED2 was flashed by the step: set red, its one-shot timer armed for the fixed delay.
Led2Flashed == led2' = Red /\ led2TimerExpiry' = defaultBlinkTimeLed2

(* C13, as claimed: a send, an inbound message and the message-delivery callback each
   flash LED2. *)
C13_Original ==
    [][(Sends(calls') # {} \/ event'.h \in {"MessageReceived", "MessageDelivered"})
          => Led2Flashed]_vars

(* C13, amended: a send and an inbound message each flash LED2; the message-delivery
   callback does not: it sets LED1 green and leaves LED2 and its timer as they were. *)
C13_FlashTriggers ==
    /\ [][(Sends(calls') # {} \/ event'.h = "MessageReceived") => Led2Flashed]_vars
    /\ [][event'.h = "MessageDelivered"
             => (led1' = Green /\ UNCHANGED <<led2, led2TimerExpiry>>)]_vars

\* C13's case: the delivery of a sent message was confirmed after the flash of the
\* send had expired, and LED2 stayed off.
C13_Witness ==
    /\ event.h = "MessageDelivered" /\ unconfirmed = 0
    /\ led1 = Green /\ led2 = Off /\ led2TimerExpiry = nullPeriod

\* The step is an LED1 timer tick that consumed its timer event.
Led1Ticked == event'.h = "Led1UpdateHandler" /\ event'.consumed

(* C14: right after every LED1 timer tick that consumed its event, LED3 is green if the
   hub is connected and off otherwise; no other dispatch of the running loop writes
   LED3, so the connection-status callback changes connectedToIoTHub and leaves LED3
   as it was until the next tick. *)
C14_Led3Mirror ==
    /\ [][Led1Ticked => led3' = (IF connectedToIoTHub' THEN Green ELSE Off)]_vars
    /\ [][led3' # led3 => Led1Ticked]_vars
    /\ [][event'.h = "IoTHubConnectionStatusChanged"
             => (connectedToIoTHub' = event'.connected /\ led3' = led3)]_vars

\* C14's case: the connection was lost after a tick had shown it, and LED3 is still
\* green.
C14_Witness ==
    /\ event.h = "IoTHubConnectionStatusChanged" /\ ~event.connected
    /\ ~connectedToIoTHub /\ led3 = Green

(* C15: every LED1 timer tick that consumes its event toggles the blink phase once, and
   a tick that toggles it to on leaves LED1 in the current blink colour. *)
C15_BlinkRendered ==
    [][Led1Ticked
          => /\ blinkingLedState' = ~blinkingLedState
             /\ blinkingLedState' => led1' = ledBlinkColor]_vars

(* C16: a reported press of button A advances blinkIntervalIndex to the next preset
   modulo N, sets the LED1 timer to that preset and reports the index when the hub is
   connected. *)
C16_LocalCycle ==
    [][(TickDone' /\ pressed'.A)
          => LET i == (blinkIntervalIndex + 1) % blinkIntervalsCount
             IN  /\ blinkIntervalIndex' = i
                 /\ led1TimerPeriod' = blinkIntervals[i + 1]
                 /\ connectedToIoTHub
                       => \E k \in DOMAIN calls' : calls'[k] = OneReport(i)[1]]_vars

\* The last dispatch was a direct-method call that returned.
MethodReturned == event.h = "DirectMethodCall" /\ pc # "aborted"

\* The payload of the last direct-method call names a colour that was recognised.
ColorRecognised == event.payload.parse = "color" /\ event.payload.ledColor \in Colors

(* C19: a direct-method call that returns, returns 200 exactly when the method is
   "LedColorControlMethod" and the payload parses to an object whose "color" is a
   recognised colour, 400 when the method is that one and the payload does not, and 404
   for any other method; ledBlinkColor changes only on a 200, to the colour named; no
   call changes the arming flag, blinkIntervalIndex or an LED. *)
C19_DirectMethod ==
    /\ [][MethodReturned'
             => LET known == event'.methodName = "LedColorControlMethod"
                IN  /\ event'.result \in {200, 400, 404}
                    /\ (event'.result = 200) = (known /\ ColorRecognised')
                    /\ (event'.result = 400) = (known /\ ~ColorRecognised')
                    /\ (event'.result = 404) = ~known
                    /\ ledBlinkColor' = IF event'.result = 200
                                        THEN event'.payload.ledColor
                                        ELSE ledBlinkColor]_vars
    /\ [][ledBlinkColor' # ledBlinkColor => event'.h = "DirectMethodCall"]_vars
    /\ [][event'.h = "DirectMethodCall"
             => UNCHANGED <<easyButtonArmed, blinkIntervalIndex, blinkingLedPeriod,
                            led1TimerPeriod, led1, led2, led3>>]_vars

\* C19's case: {"color":"red"} was answered 200 and red is the blink colour.
C19_Witness ==
    /\ MethodReturned /\ event.result = 200
    /\ event.payload = [parse |-> "color", ledColor |-> Red] /\ ledBlinkColor = Red

(* C20: between dispatches of the running loop, either the termination flag is set or
   the period of the LED1 timer is blinkIntervals[blinkIntervalIndex] and equals
   blinkingLedPeriod; a twin update whose timer reconfiguration fails sets the flag
   and reports nothing. *)
C20_PeriodMatchesIndex ==
    /\ [](pc = "loop"
            => \/ terminationRequired
               \/ /\ led1TimerPeriod = blinkIntervals[blinkIntervalIndex + 1]
                  /\ led1TimerPeriod = blinkingLedPeriod)
    /\ [][(TwinNumber' /\ ~event'.timerOk)
             => (terminationRequired' /\ calls' = <<>>)]_vars

\* C20's case: a twin update moved the index but could not set the timer: the period
\* lags behind the index, and the flag is set.
C20_Witness ==
    /\ TwinNumber /\ ~event.timerOk /\ terminationRequired
    /\ blinkIntervalIndex = 2 /\ blinkingLedPeriod = 500 /\ led1TimerPeriod = 125

\* main has returned.
Exited == pc = "exited"

(* C17: the termination flag, once set (by SIGTERM at any time, or by a handler), is
   never cleared; the loop starts no further round: nothing changes any more but by the
   shutdown; the shutdown releases every handle that was opened exactly once (and
   handles are released by nothing else); and the shutdown is eventually reached. *)
C17_OrderlyShutdown ==
    /\ [][terminationRequired => terminationRequired']_vars
    /\ [][terminationRequired => (Exited' \/ UNCHANGED <<progVars, rounds>>)]_vars
    /\ [][fds' # fds => (pc = "init" \/ (terminationRequired /\ Exited'))]_vars
    /\ [](Exited => \A h \in Handles : fds[h] \in {"unset", "closed"})
    /\ [](~Exited => \A h \in Handles : fds[h] \in {"unset", "open"})
    /\ terminationRequired ~> Exited

\* C17's case: the loop ran its rounds, the flag was set, and main has returned with
\* every handle closed.
C17_Witness ==
    /\ Exited /\ terminationRequired /\ rounds = MaxRounds
    /\ \A h \in Handles : fds[h] = "closed"

\* The last dispatch met a fatal condition: InitPeripheralsAndHandlers failed, a handler
\* could not consume its timer event, a button level could not be read, or the wait
\* failed.
InitFailed == event.h = "InitPeripheralsAndHandlers" /\ event.outcome # "ok"
ConsumeFailed ==
    /\ event.h \in {"ButtonsHandler", "Led1UpdateHandler", "Led2UpdateHandler",
                    "AzureIotDoWorkHandler"}
    /\ ~event.consumed
ReadFailed == TickDone /\ (event.a = Err \/ event.b = Err \/ event.e.failed)
WaitFailed == event.h = "WaitForEventAndCallHandler"
Fatal == InitFailed \/ ConsumeFailed \/ ReadFailed \/ WaitFailed

(* C18: every fatal condition leaves the termination flag set; after a failed
   InitPeripheralsAndHandlers no round is dispatched before the shutdown; after a
   consume error, a button read error or a failed wait no further round is dispatched
   before the shutdown; and the shutdown is eventually reached. *)
C18_FatalTerminates ==
    /\ [](Fatal => terminationRequired)
    /\ [](InitFailed => rounds = 0)
    /\ [][Fatal => (Exited' \/ UNCHANGED <<progVars, rounds>>)]_vars
    /\ [][(Exited' /\ InitFailed) => rounds' = 0]_vars
    /\ Fatal ~> Exited

\* C18's case: creating the epoll instance failed, and main returned without a round,
\* the GPIOs it had opened released.
C18_Witness ==
    /\ Exited /\ rounds = 0
    /\ fds["epollFd"] = "unset" /\ fds["gpioEasyButtonFd"] = "closed"
    /\ fds["rgbLeds"] = "closed"

\* The step is a sampling tick that read the easy button.
EasySampled == TickDone' /\ ~event'.e.failed

(* C21: a change of the easy button's level sampled while the count is not above 450 is
   absorbed: the level is stored, nothing is accepted or reported, and the count goes
   on by one; so a tick that samples high with high already stored reports nothing,
   however long the button is held, and a press is reported only on a tick that finds
   low stored: after a release was sampled. *)
C21_AbsorbedChange ==
    /\ [][(EasySampled /\ event'.e.level # easyButtonState
              /\ easyButtonCount <= EasyThreshold)
             => /\ ~accepted' /\ ~pressed'.E
                /\ easyButtonState' = event'.e.level
                /\ easyButtonCount' = easyButtonCount + 1]_vars
    /\ [][(EasySampled /\ easyButtonState = High) => ~pressed'.E]_vars
    /\ [][(TickDone' /\ pressed'.E)
             => (easyButtonState = Low /\ event'.e.level = High)]_vars

\* C21's case: a press that began inside the first window is still held after the
\* window has passed, and no transition was ever accepted.
C21_Witness ==
    /\ TickDone /\ ~event.e.failed /\ ~terminationRequired
    /\ event.e.level = High /\ easyButtonState = High /\ ~pressed.E /\ ~accepted
    /\ easyButtonCount > EasyThreshold /\ sinceAccept = easyButtonCount
    /\ acceptedLevel = Low

(* C22: a tick in which button A and a confirm button (B, the easy button, or both)
   report a press arms and fires within the tick, whatever the arming flag was before:
   it ends Disarmed with LED1 red, having sent at most once: once if the hub is
   connected, not at all if it is not. *)
C22_ArmAndFireInOneTick ==
    [][(TickDone' /\ pressed'.A /\ ConfirmReported')
          => /\ ~easyButtonArmed'
             /\ led1' = Red
             /\ Cardinality(Sends(calls')) <= 1
             /\ calls' = (IF connectedToIoTHub THEN OneSend ELSE <<>>)
             /\ sendCount' = sendCount + Len(calls')]_vars

\* C22's case: all three buttons reported a press in one tick of a connected device:
\* one send, Disarmed, LED1 red.
C22_Witness ==
    /\ TickDone /\ pressed.A /\ pressed.B /\ pressed.E
    /\ calls = OneSend /\ ~easyButtonArmed /\ led1 = Red /\ led2 = Red

(* C23: the count of the threshold debouncer never wraps: once above 450 it is above 450
   after every tick that accepts no transition, however many such ticks there are. *)
C23_CountStaysAbove ==
    [][(TickDone' /\ easyButtonCount > EasyThreshold /\ ~accepted')
          => easyButtonCount' > EasyThreshold]_vars

====
